---- MODULE Spec2Model ----
(***************************************************************************)
(* Temporal alignment and memoisation core of the ensemble trading system: *)
(* DataElement (shift / at / align_with), Indexer (timing map and lag      *)
(* rule), StrategyElement.__call__ (identity keyed cache lookup) and       *)
(* Crossover.update_param.                                                 *)
(*                                                                         *)
(* Python strings that the code indexes or concatenates ("OO", "C", ...)   *)
(* are sequences of one-character strings; timing labels are only used as  *)
(* dictionary keys and are atomic strings.  Objects live in a heap, an     *)
(* object's identity is its index in the heap, None is 0.                  *)
(***************************************************************************)
EXTENDS Integers, Sequences, FiniteSets, TLC

VARIABLES heap, strategy, params, last

vars == <<heap, strategy, params, last>>

\* ---------------------------------------------------------------- bounds
MaxObjs == 3
TableLen == 3

\* ------------------------------------------------------------- vocabulary
None == 0
NaN == "NaN"
NoIndexer == [trade_timing |-> <<>>, ind_timing |-> <<>>, timing_map |-> <<>>]

TradeTimingInputs == {<<"O", "O">>, <<"C", "C">>, <<"O", "C">>}
IndTimingInputs == {<<"O">>, <<"C">>, <<"X">>}
TimingLabels == {"decision", "entry", "exit", "open", "close"}
TimingInputs == TimingLabels \cup {"Close", "noon"}
ShiftInputs == {-1, 0, 1, 2}
NewParamInputs == {{1, 2}, {2}}

SignalStages == {1, 2}
PositionStages == {3}
Stages == SignalStages \cup PositionStages
DataStages == {1, 3}

\* ------------------------------------------------------------ Indexer
\* "sub in s" for Python strings
StrIn(sub, s) ==
    \E i \in 1..(Len(s) - Len(sub) + 1) : SubSeq(s, i, i + Len(sub) - 1) = sub

\* s[-1] as a one-character string
StrLast(s) == SubSeq(s, Len(s), Len(s))

\* s[0] as a one-character string
StrFirst(s) == SubSeq(s, 1, 1)

\* str.lower() on the timing inputs
Lower(timing) == IF timing = "Close" THEN "close" ELSE timing

\* variant: an invalid value is replaced by a default instead of being rejected
IndexerInit_default(trade_timing, ind_timing) ==
    LET tt == IF trade_timing \notin {<<"O", "O">>, <<"C", "C">>}
              THEN <<"C", "C">> ELSE trade_timing
        it == IF ind_timing \notin {<<"O">>, <<"C">>} THEN <<"C">> ELSE ind_timing
    IN  [err |-> "",
         obj |-> [trade_timing |-> tt,
                  ind_timing |-> it,
                  timing_map |-> [l \in TimingLabels |->
                      CASE l = "decision" -> it
                        [] l = "entry" -> StrFirst(tt)
                        [] l = "exit" -> StrLast(tt)
                        [] l = "open" -> <<"O">>
                        [] l = "close" -> <<"C">>]]]

IndexerInit(trade_timing, ind_timing) ==
    IF trade_timing \notin {<<"O", "O">>, <<"C", "C">>}
    THEN [err |-> "ValueError", obj |-> NoIndexer]
    ELSE IF ind_timing \notin {<<"O">>, <<"C">>}
    THEN [err |-> "ValueError", obj |-> NoIndexer]
    ELSE [err |-> "",
          obj |-> [trade_timing |-> trade_timing,
                   ind_timing |-> ind_timing,
                   timing_map |-> [l \in TimingLabels |->
                       CASE l = "decision" -> ind_timing
                         [] l = "entry" -> StrFirst(trade_timing)
                         [] l = "exit" -> StrLast(trade_timing)
                         [] l = "open" -> <<"O">>
                         [] l = "close" -> <<"C">>]]]

\* convert_timing: the bucket of a label, or an error for an unknown label
convert_timing(indexer, timing) ==
    IF Lower(timing) \notin DOMAIN indexer.timing_map
    THEN [err |-> "ValueError", val |-> <<>>]
    ELSE [err |-> "", val |-> indexer.timing_map[Lower(timing)]]

\* variant: tests for "O" instead of "OC" in the concatenated buckets
Indexer_get_lag_anyO(indexer, start, end) ==
    LET s == convert_timing(indexer, start)
        e == convert_timing(indexer, end)
    IN  IF s.err # "" THEN [err |-> s.err, val |-> 0]
        ELSE IF e.err # "" THEN [err |-> e.err, val |-> 0]
        ELSE IF StrIn(<<"O">>, s.val \o e.val)
             THEN [err |-> "", val |-> 0]
             ELSE [err |-> "", val |-> 1]

Indexer_get_lag(indexer, start, end) ==
    LET s == convert_timing(indexer, start)
        e == convert_timing(indexer, end)
    IN  IF s.err # "" THEN [err |-> s.err, val |-> 0]
        ELSE IF e.err # "" THEN [err |-> e.err, val |-> 0]
        ELSE IF StrIn(<<"O", "C">>, s.val \o e.val)
             THEN [err |-> "", val |-> 0]
             ELSE [err |-> "", val |-> 1]

ValidIndexers ==
    {IndexerInit(tt, it).obj : tt \in {<<"O", "O">>, <<"C", "C">>},
                               it \in {<<"O">>, <<"C">>}}

\* ------------------------------------------------------------ DataElement
\* variant: vacated positions keep their old value instead of becoming NaN
ShiftData_fill(data, n) ==
    [i \in 1..Len(data) |-> IF (i - n) \in 1..Len(data) THEN data[i - n] ELSE data[i]]

\* DataFrame.shift(n) on a one-column table
ShiftData(data, n) ==
    [i \in 1..Len(data) |-> IF (i - n) \in 1..Len(data) THEN data[i - n] ELSE NaN]

\* DataElement.copy: deepcopy keeps every attribute value
Copy(obj) == obj

\* DataElement.shift: the new object returned
shift(obj, lag) ==
    [Copy(obj) EXCEPT !.data = ShiftData(obj.data, lag), !.lag = @ + lag]

\* DataElement.get_lag
get_lag(obj, target_timing) ==
    Indexer_get_lag(obj.indexer, obj.calculation_timing[Len(obj.calculation_timing)],
                    target_timing)

\* DataElement.at: the object returned, or the error raised
at(obj, timing) ==
    LET lag == get_lag(obj, timing)
    IN  IF lag.err # "" THEN [err |-> lag.err, obj |-> obj]
        ELSE [err |-> "", obj |-> shift(obj, lag.val)]

\* variant: the lag already applied to the other object is left out
align_with_nolag(obj, other) ==
    LET alignment_lag == get_lag(obj, other.calculation_timing[1])
    IN  IF alignment_lag.err # "" THEN [err |-> alignment_lag.err, obj |-> obj]
        ELSE [err |-> "", obj |-> shift(obj, alignment_lag.val)]

\* DataElement.align_with: the object returned, or the error raised
align_with(obj, other) ==
    LET alignment_lag == get_lag(obj, other.calculation_timing[1])
        total_lag == alignment_lag.val + other.lag
    IN  IF alignment_lag.err # "" THEN [err |-> alignment_lag.err, obj |-> obj]
        ELSE [err |-> "", obj |-> shift(obj, total_lag)]

\* ------------------------------------------------------------ stages
ID(s) == s

calculation_timing(s) == IF s \in SignalStages THEN <<"decision">> ELSE <<"entry">>

get_result(s, strat) == IF s \in SignalStages THEN strat.signal ELSE strat.positions

starting_lag(s) == 0

\* price table handed to the indicators
Prices == [i \in 1..TableLen |-> IF i % 2 = 0 THEN i + 2 ELSE i]

\* trailing-window sum and window size of an indicator of the given period
WindowSum(period, prices, i) ==
    LET lo == IF i - period + 1 < 1 THEN 1 ELSE i - period + 1
        RECURSIVE Sum(_)
        Sum(j) == IF j > i THEN 0 ELSE prices[j] + Sum(j + 1)
    IN  [sum |-> Sum(lo), n |-> i - lo + 1]

\* Crossover.execute: 'Up' where fast > slow, 'Down' elsewhere
CrossoverExecute(p) ==
    [i \in 1..TableLen |->
        LET f == WindowSum(p.fast, Prices, i)
            sl == WindowSum(p.slow, Prices, i)
        IN  IF f.sum * sl.n > sl.sum * f.n THEN "Up" ELSE "Down"]

\* execute of a position rule: a table of positions
PositionExecute == [i \in 1..TableLen |-> "Long"]

execute(s) == IF s \in SignalStages THEN CrossoverExecute(params[s]) ELSE PositionExecute

\* variant: nothing in the slot is ever recognised as this stage's own
created_never(s, result, h) == FALSE

\* variant: whatever is in the slot is taken for this stage's own
created_any(s, result, h) == result # None

\* variant: a cached result counts only while it matches the current parameters
created_byvalue(s, result, h) ==
    result # None /\ h[result].creator = ID(s) /\ h[result].data = execute(s)

created(s, result, h) == result # None /\ h[result].creator = ID(s)

NoOp == [op |-> "init", stage |-> 0, src |-> 0, other |-> 0, ret |-> 0,
         executed |-> FALSE, err |-> "", periods |-> 0, start |-> "", end |-> "",
         lag |-> 0, tt |-> <<>>, it |-> <<>>,
         prevop |-> "", prevstage |-> 0, prevret |-> 0, prevexec |-> FALSE]

\* last, for a call of stage s, with what the operation before it was
CallRecord(s) ==
    IF last.op \in {"call", "update_param"}
    THEN [NoOp EXCEPT !.op = "call", !.stage = s, !.prevop = last.op,
                      !.prevstage = last.stage, !.prevret = last.ret,
                      !.prevexec = last.executed]
    ELSE [NoOp EXCEPT !.op = "call", !.stage = s]

Init ==
    /\ heap = <<>>
    /\ strategy \in [indexer : ValidIndexers, signal : {None}, positions : {None}]
    /\ params = [s \in SignalStages |-> [fast |-> 1, slow |-> 2]]
    /\ last = NoOp

\* strategy.indexer = Indexer(trade_timing, ind_timing)
NewIndexer(trade_timing, ind_timing) ==
    LET r == IndexerInit(trade_timing, ind_timing)
    IN  /\ strategy' = IF r.err # "" THEN strategy
                       ELSE [strategy EXCEPT !.indexer = r.obj]
        /\ last' = [NoOp EXCEPT !.op = "Indexer", !.err = r.err,
                                !.tt = trade_timing, !.it = ind_timing]
        /\ UNCHANGED <<heap, params>>

\* strategy.indexer.get_lag(start, end)
GetLag(start, end) ==
    LET r == Indexer_get_lag(strategy.indexer, start, end)
    IN  /\ last' = [NoOp EXCEPT !.op = "get_lag", !.start = start, !.end = end,
                                !.err = r.err, !.lag = r.val]
        /\ UNCHANGED <<heap, strategy, params>>

\* StrategyElement.__call__(strategy)
Call(s) ==
    LET result == get_result(s, strategy)
    IN  IF created(s, result, heap)
        THEN /\ last' = [CallRecord(s) EXCEPT !.ret = result]
             /\ UNCHANGED <<heap, strategy, params>>
        ELSE /\ Len(heap) < MaxObjs
             /\ heap' = Append(heap, [data |-> execute(s),
                                      creator |-> ID(s),
                                      indexer |-> strategy.indexer,
                                      calculation_timing |-> calculation_timing(s),
                                      lag |-> starting_lag(s)])
             /\ last' = [CallRecord(s) EXCEPT !.ret = Len(heap) + 1,
                                               !.executed = TRUE]
             /\ UNCHANGED <<strategy, params>>

\* the strategy assigns the result a stage just returned to the stage's slot
Store ==
    /\ last.op = "call"
    /\ strategy' = IF last.stage \in SignalStages
                   THEN [strategy EXCEPT !.signal = last.ret]
                   ELSE [strategy EXCEPT !.positions = last.ret]
    /\ last' = [NoOp EXCEPT !.op = "store", !.stage = last.stage, !.ret = last.ret]
    /\ UNCHANGED <<heap, params>>

\* Crossover.update_param(new_params)
UpdateParam(s, new_params) ==
    LET max == CHOOSE x \in new_params : \A y \in new_params : y <= x
        min == CHOOSE x \in new_params : \A y \in new_params : x <= y
    IN  /\ params' = [params EXCEPT ![s] = [slow |-> max, fast |-> min]]
        /\ last' = [NoOp EXCEPT !.op = "update_param", !.stage = s]
        /\ UNCHANGED <<heap, strategy>>

\* variant: the receiver itself is shifted and returned
Shift_inplace(x, lag) ==
    /\ Len(heap) < MaxObjs
    /\ heap' = [heap EXCEPT ![x] = shift(heap[x], lag)]
    /\ last' = [NoOp EXCEPT !.op = "shift", !.src = x, !.periods = lag, !.ret = x]
    /\ UNCHANGED <<strategy, params>>

\* x.shift(lag)
Shift(x, lag) ==
    /\ Len(heap) < MaxObjs
    /\ heap' = Append(heap, shift(heap[x], lag))
    /\ last' = [NoOp EXCEPT !.op = "shift", !.src = x, !.periods = lag,
                            !.ret = Len(heap) + 1]
    /\ UNCHANGED <<strategy, params>>

\* x.at(timing)
At(x, timing) ==
    LET r == at(heap[x], timing)
    IN  /\ Len(heap) < MaxObjs
        /\ heap' = IF r.err # "" THEN heap ELSE Append(heap, r.obj)
        /\ last' = [NoOp EXCEPT !.op = "at", !.src = x, !.err = r.err,
                                !.ret = IF r.err # "" THEN None ELSE Len(heap) + 1]
        /\ UNCHANGED <<strategy, params>>

\* x.align_with(other)
AlignWith(x, other) ==
    LET r == align_with(heap[x], heap[other])
    IN  /\ Len(heap) < MaxObjs
        /\ heap' = IF r.err # "" THEN heap ELSE Append(heap, r.obj)
        /\ last' = [NoOp EXCEPT !.op = "align_with", !.src = x, !.other = other,
                                !.err = r.err,
                                !.ret = IF r.err # "" THEN None ELSE Len(heap) + 1]
        /\ UNCHANGED <<strategy, params>>

\* timing model construction and the lag rule
NextTiming ==
    \/ \E tt \in TradeTimingInputs, it \in IndTimingInputs : NewIndexer(tt, it)
    \/ \E start \in TimingInputs, end \in TimingInputs : GetLag(start, end)

SpecTiming == Init /\ [][NextTiming]_vars

\* the memoisation protocol between stages and the strategy
Next ==
    \/ \E s \in Stages : Call(s)
    \/ Store
    \/ \E s \in SignalStages, np \in NewParamInputs : UpdateParam(s, np)

Spec == Init /\ [][Next]_vars

\* no result of stage s has been produced yet
NotYetRun(s) == \A o \in 1..Len(heap) : heap[o].creator # ID(s)

\* data objects produced by stages and aligned with one another; each stage
\* is run once, under whatever indexer the strategy has at that moment
NextData ==
    \/ \E tt \in TradeTimingInputs, it \in IndTimingInputs : NewIndexer(tt, it)
    \/ \E s \in DataStages : NotYetRun(s) /\ Call(s)
    \/ \E x \in 1..Len(heap), lag \in ShiftInputs : Shift(x, lag)
    \/ \E x \in 1..Len(heap), timing \in TimingInputs : At(x, timing)
    \/ \E x \in 1..Len(heap), other \in 1..Len(heap) : AlignWith(x, other)

SpecData == Init /\ [][NextData]_vars

TypeOK ==
    /\ strategy.signal \in 0..Len(heap)
    /\ strategy.positions \in 0..Len(heap)

\* ------------------------------------------------------------ properties
\* the bucket of a label under the fixed mapping
Bucket(indexer, label) ==
    CASE label = "decision" -> indexer.ind_timing[1]
      [] label = "entry" -> indexer.trade_timing[1]
      [] label = "exit" -> indexer.trade_timing[Len(indexer.trade_timing)]
      [] label = "open" -> "O"
      [] label = "close" -> "C"

\* 0 for an open bucket followed by a close bucket, 1 for any other pair
RuleLag(indexer, start, end) ==
    IF Bucket(indexer, start) = "O" /\ Bucket(indexer, end) = "C" THEN 0 ELSE 1

\* r is d moved n positions along the time axis, vacated positions empty
IsShifted(r, d, n) ==
    /\ Len(r) = Len(d)
    /\ \A t \in 1..Len(d) : (t + n) \in 1..Len(d) => r[t + n] = d[t]
    /\ \A t \in 1..Len(d) : (t - n) \notin 1..Len(d) => r[t] = NaN

\* the slot of stage s's category
Slot(s) == IF s \in SignalStages THEN strategy.signal ELSE strategy.positions

\* the slot of stage s's category holds a result stamped by s
SlotHeldBy(s) == Slot(s) # None /\ heap[Slot(s)].creator = s

\* the last operation was the second of two invocations of one stage in a row
CalledTwice ==
    last.op = "call" /\ last.prevop = "call" /\ last.prevstage = last.stage

C2_LagRule ==
    (last.op = "get_lag" /\ last.start \in TimingLabels /\ last.end \in TimingLabels)
        => /\ last.err = ""
           /\ last.lag = RuleLag(strategy.indexer, last.start, last.end)
           /\ last.lag \in {0, 1}

C2_Witness ==
    /\ last.op = "get_lag" /\ last.start = "decision" /\ last.end = "exit"
    /\ strategy.indexer.ind_timing = <<"O">>
    /\ strategy.indexer.trade_timing = <<"C", "C">>
    /\ last.lag = 0

\* C3: under one timing model, align_with returns an object whose lag is
\* self.lag + get_lag(self end timing, other start timing) + other.lag and
\* whose data is self's data shifted by get_lag(...) + other.lag; a signal
\* aligned with a position object under CC / C, both unlagged, is shifted by 1.
C3_AlignWith ==
    (last.op = "align_with" /\ heap[last.src].indexer = heap[last.other].indexer)
        => LET self == heap[last.src]
               other == heap[last.other]
               n == RuleLag(self.indexer,
                            self.calculation_timing[Len(self.calculation_timing)],
                            other.calculation_timing[1]) + other.lag
           IN  /\ last.err = ""
               /\ last.ret # None
               /\ heap[last.ret].lag = self.lag + n
               /\ IsShifted(heap[last.ret].data, self.data, n)
               /\ (/\ self.indexer.trade_timing = <<"C", "C">>
                   /\ self.indexer.ind_timing = <<"C">>
                   /\ self.calculation_timing = <<"decision">> /\ self.lag = 0
                   /\ other.calculation_timing = <<"entry">> /\ other.lag = 0)
                  => (heap[last.ret].lag = 1
                      /\ IsShifted(heap[last.ret].data, self.data, 1))

C3_Witness ==
    /\ last.op = "align_with" /\ last.ret # None
    /\ heap[last.src].indexer = heap[last.other].indexer
    /\ heap[last.src].indexer.trade_timing = <<"C", "C">>
    /\ heap[last.src].indexer.ind_timing = <<"C">>
    /\ heap[last.src].calculation_timing = <<"decision">>
    /\ heap[last.src].lag = 0
    /\ heap[last.other].calculation_timing = <<"entry">>
    /\ heap[last.other].lag = 0
    /\ heap[last.ret].lag = 1

\* C4: for a, b >= 0, x.shift(a).shift(b) has the data and lag of
\* x.shift(a + b), its first a + b positions empty; shift(0) returns an
\* object value-equal to its receiver.
C4_ShiftCompose ==
    (last.op = "shift" /\ last.periods >= 0)
        => /\ \A w \in 1..Len(heap), a \in 0..2 :
                heap[last.src] = shift(heap[w], a)
                    => /\ heap[last.ret].data = shift(heap[w], a + last.periods).data
                       /\ heap[last.ret].lag = shift(heap[w], a + last.periods).lag
                       /\ heap[last.ret].lag = heap[w].lag + a + last.periods
                       /\ \A t \in 1..TableLen :
                            t <= a + last.periods => heap[last.ret].data[t] = NaN
           /\ last.periods = 0 => heap[last.ret] = heap[last.src]

C4_Witness ==
    /\ last.op = "shift" /\ last.periods = 1
    /\ \E w \in 1..Len(heap) :
          /\ w # last.src
          /\ heap[w].lag = 0
          /\ heap[last.src] = shift(heap[w], 1)
          /\ heap[last.ret].lag = 2

C6_IncompatibleFails ==
    (last.op = "align_with" /\ heap[last.src].indexer # heap[last.other].indexer)
        => (last.err # "" /\ last.ret = None)

\* C7: every data object has lag >= 0.
C7_LagNonNegative == \A x \in 1..Len(heap) : heap[x].lag >= 0

\* C8: constructing an indexer with trade timing outside {OO, CC} or
\* indicator timing outside {O, C} fails and yields no indexer; every indexer
\* in use has valid timings.
C8_InvalidRejected ==
    /\ (last.op = "Indexer"
          /\ (last.tt \notin {<<"O", "O">>, <<"C", "C">>}
                \/ last.it \notin {<<"O">>, <<"C">>}))
         => (last.err = "ValueError" /\ IndexerInit(last.tt, last.it).obj = NoIndexer)
    /\ (last.op = "Indexer" /\ last.err = "")
         => (strategy.indexer.trade_timing = last.tt
             /\ strategy.indexer.ind_timing = last.it)
    /\ strategy.indexer.trade_timing \in {<<"O", "O">>, <<"C", "C">>}
    /\ strategy.indexer.ind_timing \in {<<"O">>, <<"C">>}

C8_Witness ==
    /\ last.op = "Indexer" /\ last.tt = <<"O", "C">> /\ last.it = <<"C">>
    /\ last.err = "ValueError"

\* C9: shift leaves its receiver (and every other object) as it was and
\* returns a distinct object with lag = receiver's lag + periods and the
\* receiver's creator, calculation timing and indexer.
C9_ShiftDoesNotMutate ==
    [][\A x \in 1..Len(heap), p \in ShiftInputs :
          Shift(x, p) =>
              /\ \A o \in 1..Len(heap) : heap'[o] = heap[o]
              /\ last'.ret # x
              /\ last'.ret \notin 1..Len(heap)
              /\ heap'[last'.ret].lag = heap[x].lag + p
              /\ heap'[last'.ret].creator = heap[x].creator
              /\ heap'[last'.ret].calculation_timing = heap[x].calculation_timing
              /\ heap'[last'.ret].indexer = heap[x].indexer]_vars

C9_Witness ==
    /\ last.op = "shift" /\ last.periods = 2
    /\ heap[last.ret].lag = heap[last.src].lag + 2
    /\ heap[last.ret].data # heap[last.src].data

\* C10: after update_param on a stage whose result is cached in the slot, the
\* next invocation of the stage does not run execute and returns the cached
\* result, computed with the old parameters.
C10_StaleHit ==
    (last.op = "call" /\ last.prevop = "update_param"
       /\ last.prevstage = last.stage /\ SlotHeldBy(last.stage))
        => (~last.executed /\ last.ret = Slot(last.stage))

C10_Witness ==
    /\ last.op = "call" /\ last.prevop = "update_param"
    /\ last.prevstage = last.stage /\ SlotHeldBy(last.stage)
    /\ ~last.executed
    /\ heap[last.ret].data # execute(last.stage)
====
